---- MODULE Spec2Model ----
(***************************************************************************)
(* Streaming text-to-speech pipeline of the conversational-avatar backend: *)
(* server/utils/streaming_tts.py (TTS_SEMAPHORE, generate_tts_async,       *)
(* TTSQueue), server/utils/tts_text_cleaner.py and the WebSocket handler   *)
(* chat_with_avatar_stream of server/routes/conversation_routes.py.        *)
(*                                                                         *)
(* Text is a sequence of one-character strings.  Every asyncio task        *)
(* (handler, background sender, one task per utterance) moves from one     *)
(* await to the next in one action.                                        *)
(***************************************************************************)
EXTENDS Integers, Sequences, FiniteSets, TLC

(***************************************************************************)
(* Text helpers (Python str methods used by the code)                      *)
(***************************************************************************)
\* str values, one character per element
Text == Seq(STRING)

IsSpace(c) == c = " "

IsPunct(c) == c \in {".", ",", ";", ":", "!", "?"}

\* the characters of the model are letters, spaces and punctuation marks
IsAlpha(c) == ~IsSpace(c) /\ ~IsPunct(c)

LStrip[s \in Text] ==
  IF s = <<>> THEN <<>>
  ELSE IF IsSpace(Head(s)) THEN LStrip[Tail(s)] ELSE s

RStrip[s \in Text] ==
  IF s = <<>> THEN <<>>
  ELSE IF IsSpace(s[Len(s)]) THEN RStrip[SubSeq(s, 1, Len(s) - 1)] ELSE s

Strip(s) == RStrip[LStrip[s]]

\* str.find('. '): 0-based index of the first ". ", or -1
RECURSIVE FindFrom(_, _)
FindFrom(s, i) ==
  IF i + 1 > Len(s) THEN -1
  ELSE IF s[i] = "." /\ s[i + 1] = " " THEN i - 1
  ELSE FindFrom(s, i + 1)

\* 0-based index of the first full stop or question mark followed by a space
RECURSIVE FindMarkFrom(_, _)
FindMarkFrom(s, i) ==
  IF i + 1 > Len(s) THEN -1
  ELSE IF s[i] \in {".", "?"} /\ s[i + 1] = " " THEN i - 1
  ELSE FindMarkFrom(s, i + 1)

FindAnyMarkSpace(s) == FindMarkFrom(s, 1)

FindPeriodSpace(s) == FindFrom(s, 1)

EndsWithPeriod(s) == s # <<>> /\ s[Len(s)] = "."

\* len(text.split())
WordCount[s \in Text] ==
  IF s = <<>> THEN 0
  ELSE IF IsSpace(Head(s)) THEN WordCount[Tail(s)]
  ELSE IF Len(s) = 1 \/ IsSpace(s[2]) THEN 1 + WordCount[Tail(s)]
  ELSE WordCount[Tail(s)]

AlphaCount[s \in Text] ==
  IF s = <<>> THEN 0
  ELSE (IF IsAlpha(Head(s)) THEN 1 ELSE 0) + AlphaCount[Tail(s)]

(***************************************************************************)
(* tts_text_cleaner.py, on text made of letters, full stops and spaces     *)
(* (the substitutions for markdown, URLs, e-mail, brackets, quotes and     *)
(* dashes match nothing in such text)                                      *)
(***************************************************************************)
DotRun[s \in Text] == IF s # <<>> /\ Head(s) = "." THEN 1 + DotRun[Tail(s)] ELSE 0

SpaceRun[s \in Text] == IF s # <<>> /\ IsSpace(Head(s)) THEN 1 + SpaceRun[Tail(s)] ELSE 0

\* re.sub(r'[.]{3,}', '...', cleaned)
CollapseDots[s \in Text] ==
  IF s = <<>> THEN <<>>
  ELSE LET n == DotRun[s] IN
       IF n >= 3 THEN <<".", ".", ".">> \o CollapseDots[SubSeq(s, n + 1, Len(s))]
       ELSE <<Head(s)>> \o CollapseDots[Tail(s)]

\* re.sub(r'\s+', ' ', cleaned)
NormalizeWhitespace[s \in Text] ==
  IF s = <<>> THEN <<>>
  ELSE LET n == SpaceRun[s] IN
       IF n >= 1 THEN <<" ">> \o NormalizeWhitespace[SubSeq(s, n + 1, Len(s))]
       ELSE <<Head(s)>> \o NormalizeWhitespace[Tail(s)]

\* re.sub(r'\s+([.,;:!?])\s+', r'\1 ', cleaned)
StandalonePunct[s \in Text] ==
  IF s = <<>> THEN <<>>
  ELSE LET n == SpaceRun[s]
           rest == SubSeq(s, n + 1, Len(s))
           m == IF rest = <<>> THEN 0 ELSE SpaceRun[Tail(rest)]
       IN IF n >= 1 /\ rest # <<>> /\ IsPunct(Head(rest)) /\ m >= 1
          THEN <<Head(rest), " ">> \o StandalonePunct[SubSeq(rest, m + 2, Len(rest))]
          ELSE <<Head(s)>> \o StandalonePunct[Tail(s)]

\* re.sub(r'([.,;:!?])([^\s])', r'\1 \2', cleaned)
SpaceAfterPunct[s \in Text] ==
  IF s = <<>> THEN <<>>
  ELSE IF IsPunct(Head(s)) /\ Len(s) >= 2 /\ ~IsSpace(s[2])
       THEN <<s[1], " ", s[2]>> \o SpaceAfterPunct[SubSeq(s, 3, Len(s))]
       ELSE <<Head(s)>> \o SpaceAfterPunct[Tail(s)]

clean_text_for_tts(text) ==
  IF Strip(text) = <<>> THEN <<>>
  ELSE LET c1 == CollapseDots[Strip(text)]
           c2 == NormalizeWhitespace[c1]
           c3 == SpaceAfterPunct[StandalonePunct[c2]]
           c4 == Strip(NormalizeWhitespace[c3])
       IN IF c4 = <<>> \/ (Len(c4) = 1 /\ IsPunct(c4[1])) THEN <<>>
          ELSE IF ~IsPunct(c4[Len(c4)]) /\ WordCount[c4] > 3 THEN c4 \o <<".">>
          ELSE c4

\* The alphabetic ratio test alpha_chars / len(cleaned) < 0.3, in integers.
is_tts_worthy(text, min_length) ==
  IF Strip(text) = <<>> THEN FALSE
  ELSE LET cleaned == clean_text_for_tts(text) IN
       IF WordCount[cleaned] < min_length THEN FALSE
       ELSE IF Len(cleaned) > 0 /\ 10 * AlphaCount[cleaned] < 3 * Len(cleaned) THEN FALSE
       ELSE TRUE

(***************************************************************************)
(* phrase_detector.py, on lower-case text                                  *)
(***************************************************************************)
WordRun[s \in Text] == IF s # <<>> /\ ~IsSpace(Head(s)) THEN 1 + WordRun[Tail(s)] ELSE 0

\* text.split()
SplitWords[s \in Text] ==
  IF s = <<>> THEN <<>>
  ELSE IF IsSpace(Head(s)) THEN SplitWords[Tail(s)]
  ELSE LET n == WordRun[s] IN <<SubSeq(s, 1, n)>> \o SplitWords[SubSeq(s, n + 1, Len(s))]

\* ' '.join(words)
JoinWords[ws \in Seq(Text)] ==
  IF ws = <<>> THEN <<>>
  ELSE IF Len(ws) = 1 THEN ws[1]
  ELSE ws[1] \o <<" ">> \o JoinWords[Tail(ws)]

\* text[a:b] with 0 <= a and 0 <= b
Slice(text, a, b) == SubSeq(text, a + 1, IF b < Len(text) THEN b ELSE Len(text))

\* the greatest of the str.rfind of the characters of marks: -1 when none is found
RFindAny(text, marks) ==
  LET found == {k \in 1..Len(text) : text[k] \in marks}
  IN IF found = {} THEN -1 ELSE (CHOOSE k \in found : \A m \in found : m <= k) - 1

\* re.search(r'[.,;:!?]\s*$', t)
EndsWithMark(t) == RStrip[t] # <<>> /\ IsPunct(RStrip[t][Len(RStrip[t])])

phrase_end_words ==
  { <<"a", "n", "d">>, <<"o", "r">>, <<"b", "u", "t">>, <<"s", "o">>,
    <<"t", "h", "e", "n">>, <<"a", "l", "s", "o">>,
    <<"h", "o", "w", "e", "v", "e", "r">>,
    <<"t", "h", "e", "r", "e", "f", "o", "r", "e">> }

Greatest(S) == CHOOSE k \in S : \A m \in S : m <= k

detect_phrase_boundary(text, min_words, max_words) ==
  LET words == SplitWords[text]
      word_boundary(i) == Len(JoinWords[SubSeq(words, 1, i)])
      search_start(i) == IF word_boundary(i) - 10 > 0 THEN word_boundary(i) - 10 ELSE 0
      forced == IF Len(words) >= max_words
                THEN {i \in min_words..(max_words - 1) :
                        EndsWithMark(Slice(text, search_start(i), word_boundary(i)))}
                ELSE {}
      sentence_end == RFindAny(text, {".", "!", "?"})
      pause_pos == RFindAny(text, {",", ";", ":"})
      enders == {i \in min_words..(Len(words) - 1) :
                   /\ words[i + 1] \in phrase_end_words
                   /\ Len(JoinWords[SubSeq(words, 1, i + 1)]) > 0}
      preferred_length == IF Len(words) < 6 THEN Len(words) ELSE 6
  IN IF forced # {}
     THEN [is_boundary |-> TRUE, pos |-> word_boundary(Greatest(forced)) + 1]
     ELSE IF sentence_end > 0 /\ Len(SplitWords[Slice(text, 0, sentence_end)]) >= min_words
     THEN [is_boundary |-> TRUE, pos |-> sentence_end + 1]
     ELSE IF pause_pos > 0 /\ Len(SplitWords[Slice(text, 0, pause_pos)]) >= min_words
     THEN [is_boundary |-> TRUE, pos |-> pause_pos + 1]
     ELSE IF enders # {}
     THEN [is_boundary |-> TRUE,
           pos |-> Len(JoinWords[SubSeq(words, 1, Greatest(enders) + 1)])]
     ELSE IF Len(words) >= min_words
     THEN [is_boundary |-> TRUE,
           pos |-> Len(JoinWords[SubSeq(words, 1, preferred_length)])]
     ELSE [is_boundary |-> FALSE, pos |-> 0]

extract_phrase(text, min_words, max_words) ==
  IF Strip(text) = <<>> THEN [phrase |-> <<>>, remaining |-> <<>>]
  ELSE LET d == detect_phrase_boundary(text, min_words, max_words)
           phrase == Strip(Slice(text, 0, d.pos))
           remaining == Strip(SubSeq(text, d.pos + 1, Len(text)))
           words == SplitWords[text]
           first == IF max_words < Len(words) THEN max_words ELSE Len(words)
       IN IF d.is_boundary /\ d.pos > 0 /\ Len(SplitWords[phrase]) >= min_words
          THEN [phrase |-> phrase, remaining |-> remaining]
          ELSE IF Len(words) >= min_words
          THEN [phrase |-> JoinWords[SubSeq(words, 1, first)],
                remaining |-> JoinWords[SubSeq(words, first + 1, Len(words))]]
          ELSE [phrase |-> <<>>, remaining |-> text]

(***************************************************************************)
(* Bounds and program constants                                            *)
(***************************************************************************)
Sessions == {1, 2}

\* tokens the model of one session may produce
MaxTokens == 2

\* tokens of the session of LiveSpec
MaxLiveTokens == 1

\* tokens the response of HelloSpec is cut into, at most
MaxHelloTokens == 4

\* POST /chat requests served in GateSpec
MaxPosts == 1

\* utterances submitted in GateSpec
MaxJobs == 5

MinSentenceLen == 3

MinRemainingLen == 3

MinTextLen == 3

MinWords == 3

max_remaining_attempts == 20

Ellipsis == <<".", ".", ".">>

SentenceTok == <<"a", " ", "a", " ", "a", ".", " ">>

\* chunk.content of the tokens llm.astream may yield: two sentences at once,
\* a one-word sentence, a two-character sentence, words with no full stop,
\* an ellipsis, an empty delta
Tokens ==
  { SentenceTok \o SentenceTok,
    <<"a", "a", ".">>,
    <<"a", ".">>,
    <<"a", " ", "a", " ", "a">>,
    Ellipsis,
    <<>> }

\* what text_to_speech_with_voice_cloning_bytes can do to its caller
Outcomes == {"audio", "none", "raise", "cuda"}

(***************************************************************************)
(* State                                                                   *)
(***************************************************************************)
VARIABLES
  hpc,               \* position of chat_with_avatar_stream, per session
  audio_url,         \* avatar.get("audio_url") is set
  budget,            \* tokens the LLM may still yield
  arrived,           \* concatenation of the tokens yielded so far
  full_response,
  text_buffer,
  chunk_id_counter,
  task_counter,      \* TTSQueue.task_counter
  active_tasks,      \* TTSQueue.active_tasks (task ids)
  completed_queue,   \* TTSQueue.completed_queue
  jobs,              \* the tasks made by add_tts_task, by task id + 1
  spc,               \* position of send_tts_chunks
  send_active,       \* send_tts_chunks_active["active"]
  attempts,          \* attempts of the manual flush loop
  wire,              \* send_json calls awaiting completion, oldest first
  sent,              \* messages delivered to the client
  ws_ok,             \* the client is connected
  db,                \* rows inserted into the messages table
  sem,               \* TTS_SEMAPHORE._value
  waiters,           \* TTS_SEMAPHORE._waiters
  post_pc,           \* position of chat_with_avatar (POST /chat)
  posts,             \* POST /chat requests served so far
  phrase_args,       \* arguments of a call of extract_phrase
  phrase_result      \* what the call returned, called = FALSE before it has

session_vars ==
  <<hpc, audio_url, budget, arrived, full_response, text_buffer,
    chunk_id_counter, attempts, db>>

queue_vars == <<task_counter, active_tasks, completed_queue, jobs>>

sender_vars == <<spc, send_active>>

transport_vars == <<wire, sent, ws_ok>>

gate_vars == <<sem, waiters>>

post_vars == <<post_pc, posts>>

phrase_vars == <<phrase_args, phrase_result>>

vars ==
  <<session_vars, queue_vars, sender_vars, transport_vars, gate_vars, post_vars,
    phrase_vars>>

Upd(f, s, v) == [f EXCEPT ![s] = v]

\* The event loop thread is free: chat_with_avatar calls the synthesis
\* backend synchronously and blocks the loop for the length of the call.
LoopFree == post_pc # "synth"

(***************************************************************************)
(* Sentence splitting of chat_with_avatar_stream                           *)
(***************************************************************************)
\* period_idx of one pass of the while loop, -1 when the loop breaks
period_idx(buf) ==
  LET f == FindPeriodSpace(buf) IN
  IF f # -1 THEN f
  ELSE IF EndsWithPeriod(Strip(buf)) THEN Len(buf) - 1 ELSE -1

LongEnoughIfAny(sentence) == sentence # <<>>

\* if sentence and len(sentence) >= 3
LongEnough(sentence) == sentence # <<>> /\ Len(sentence) >= MinSentenceLen

RemainingFromSecond(buf, idx) == LStrip[SubSeq(buf, idx + 4, Len(buf))]

\* remaining = text_buffer[period_idx + 1:].lstrip()
Remaining(buf, idx) == LStrip[SubSeq(buf, idx + 2, Len(buf))]

\* The while loop over text_buffer: the buffer it leaves and the sentences
\* it hands to add_tts_task, in order.
SegmentLoop[buf \in Text, acc \in Seq(Text)] ==
  IF Strip(buf) = <<>> THEN [buf |-> buf, out |-> acc]
  ELSE LET idx == period_idx(buf) IN
       IF idx = -1 THEN [buf |-> buf, out |-> acc]
       ELSE LET sentence == Strip(SubSeq(buf, 1, idx + 1))
                remaining == Remaining(buf, idx)
            IN IF LongEnough(sentence)
               THEN SegmentLoop[remaining, Append(acc, sentence)]
               ELSE [buf |-> buf, out |-> acc]

(***************************************************************************)
(* TTSQueue                                                                *)
(***************************************************************************)
NewJobWaiting(text, chunk_id) ==
  [text |-> text, chunk_id |-> chunk_id, st |-> "waiting", calls |-> 0, res |-> "-"]

NewJob(text, chunk_id) ==
  [text |-> text, chunk_id |-> chunk_id, st |-> "new", calls |-> 0, res |-> "-"]

QOfFirst(s) ==
  [task_counter |-> task_counter[1], active_tasks |-> active_tasks[1],
   jobs |-> jobs[1]]

\* The queue object of session s as a record
Q(s) ==
  [task_counter |-> task_counter[s], active_tasks |-> active_tasks[s],
   jobs |-> jobs[s]]

\* chunk_id: Optional[int] = None
NoneId == -1

\* chunk_id or task_id
ChunkIdOr(chunk_id, task_id) ==
  IF chunk_id = 0 \/ chunk_id = NoneId THEN task_id ELSE chunk_id

add_tts_task_counted_first(q, text, chunk_id) ==
  LET task_id == q.task_counter + 1 IN
  [task_counter |-> task_id,
   active_tasks |-> Append(q.active_tasks, task_id),
   jobs |-> Append(q.jobs, NewJob(text, ChunkIdOr(chunk_id, task_id)))]

\* task_id = self.task_counter; self.task_counter += 1; the task is created
\* with chunk_id or task_id
add_tts_task(q, text, chunk_id) ==
  LET task_id == q.task_counter IN
  [task_counter |-> task_id + 1,
   active_tasks |-> Append(q.active_tasks, task_id),
   jobs |-> Append(q.jobs, NewJob(text, ChunkIdOr(chunk_id, task_id)))]

\* The handler's submissions for the sentences of one token:
\* chunk_id = chunk_id_counter; chunk_id_counter += 1; add_tts_task(...)
NextChunkIdTwice(cc) == cc + 2

\* chunk_id_counter += 1
NextChunkId(cc) == cc + 1

RECURSIVE SubmitSentences(_, _, _)
SubmitSentences(q, cc, sentences) ==
  IF sentences = <<>> THEN [q |-> q, cc |-> cc]
  ELSE SubmitSentences(add_tts_task(q, Head(sentences), cc), NextChunkId(cc),
                       Tail(sentences))

QueueClearedAfterWaitAll(q) == <<>>

\* wait_all leaves the completed queue q as it is
QueueAfterWaitAll(q) == q

wait_for_chunk_peek(q) == [chunk |-> Head(q), rest |-> q]

\* wait_for_chunk on a queue q that holds a chunk: completed_queue.get()
\* removes the oldest chunk and returns it
wait_for_chunk(q) == [chunk |-> Head(q), rest |-> Tail(q)]

AllTasksDone(s) ==
  \A k \in 1..Len(active_tasks[s]) : jobs[s][active_tasks[s][k] + 1].st = "done"

(***************************************************************************)
(* Messages                                                                *)
(***************************************************************************)
\* id is the chunk_id of the chunk an audio_chunk message was built from (the
\* JSON message itself carries the text and the audio only).
TextMsgStripped(tok) == [type |-> "text_chunk", text |-> Strip(tok), id |-> -1]

TextMsg(tok) == [type |-> "text_chunk", text |-> tok, id |-> -1]

AudioMsg(chunk) == [type |-> "audio_chunk", text |-> chunk.text, id |-> chunk.chunk_id]

CompleteMsg(s) == [type |-> "complete", text |-> Strip(full_response[s]), id |-> -1]

ErrorMsg == [type |-> "error", text |-> <<>>, id |-> -1]

UserRow == [sender |-> "user", content |-> <<>>]

AvatarRowAsReceived(s) == [sender |-> "avatar", content |-> full_response[s]]

AvatarRow(s) == [sender |-> "avatar", content |-> Strip(full_response[s])]

Pending(who, msg) == [by |-> who, msg |-> msg]

HeadBy(s, who) == wire[s] # <<>> /\ Head(wire[s]).by = who

\* await websocket.send_json(msg) called by the handler with w the calls
\* already pending: the call is queued, or raises when the client is gone
\* and the handler leaves through its except clauses.
HSend(s, w, msg, pcNext) ==
  IF ws_ok[s]
  THEN /\ wire' = Upd(wire, s, Append(w, Pending("H", msg)))
       /\ hpc' = Upd(hpc, s, pcNext)
  ELSE /\ wire' = Upd(wire, s, w)
       /\ hpc' = Upd(hpc, s, "errored")

(***************************************************************************)
(* chat_with_avatar_stream                                                 *)
(***************************************************************************)
\* Lines 190-248: the user's message is stored, the TTSQueue and the sender
\* task are created when the avatar has a voice.
H_Start(s) ==
  /\ LoopFree
  /\ hpc[s] = "start"
  /\ db' = Upd(db, s, Append(db[s], UserRow))
  /\ spc' = Upd(spc, s, IF audio_url[s] THEN "idle" ELSE "none")
  /\ hpc' = Upd(hpc, s, "stream")
  /\ UNCHANGED <<audio_url, budget, arrived, full_response, text_buffer,
                 chunk_id_counter, attempts, queue_vars, send_active,
                 transport_vars, gate_vars, post_vars>>
  /\ UNCHANGED phrase_vars

\* Lines 251-260: the next token arrives and its text_chunk is sent.
H_Token(s, tok) ==
  /\ LoopFree
  /\ hpc[s] = "stream"
  /\ budget[s] > 0
  /\ budget' = Upd(budget, s, budget[s] - 1)
  /\ arrived' = Upd(arrived, s, arrived[s] \o tok)
  /\ IF tok = <<>>
     THEN UNCHANGED <<text_buffer, full_response, wire, hpc>>
     ELSE /\ text_buffer' = Upd(text_buffer, s, text_buffer[s] \o tok)
          /\ full_response' = Upd(full_response, s, full_response[s] \o tok)
          /\ HSend(s, wire[s], TextMsg(tok), "text_send")
  /\ UNCHANGED <<audio_url, chunk_id_counter, attempts, db, queue_vars,
                 sender_vars, sent, ws_ok, gate_vars, post_vars>>
  /\ UNCHANGED phrase_vars

\* Lines 262-296: the send has completed; the buffer is split and every
\* complete sentence is submitted.
H_TextSent(s) ==
  /\ LoopFree
  /\ hpc[s] = "text_send"
  /\ HeadBy(s, "H")
  /\ sent' = Upd(sent, s, Append(sent[s], Head(wire[s]).msg))
  /\ wire' = Upd(wire, s, Tail(wire[s]))
  /\ LET seg == SegmentLoop[text_buffer[s], <<>>]
         sub == IF audio_url[s]
                THEN SubmitSentences(Q(s), chunk_id_counter[s], seg.out)
                ELSE [q |-> Q(s), cc |-> chunk_id_counter[s]]
     IN /\ text_buffer' = Upd(text_buffer, s, seg.buf)
        /\ chunk_id_counter' = Upd(chunk_id_counter, s, sub.cc)
        /\ task_counter' = Upd(task_counter, s, sub.q.task_counter)
        /\ active_tasks' = Upd(active_tasks, s, sub.q.active_tasks)
        /\ jobs' = Upd(jobs, s, sub.q.jobs)
  /\ hpc' = Upd(hpc, s, "stream")
  /\ UNCHANGED <<audio_url, budget, arrived, full_response, attempts, db,
                 completed_queue, sender_vars, ws_ok, gate_vars, post_vars>>
  /\ UNCHANGED phrase_vars

\* llm.astream raises: lines 392-397 send the error message.
H_LLMError(s) ==
  /\ LoopFree
  /\ hpc[s] = "stream"
  /\ HSend(s, wire[s], ErrorMsg, "error_send")
  /\ UNCHANGED <<audio_url, budget, arrived, full_response, text_buffer,
                 chunk_id_counter, attempts, db, queue_vars, sender_vars,
                 sent, ws_ok, gate_vars, post_vars>>
  /\ UNCHANGED phrase_vars

H_ErrorSent(s) ==
  /\ LoopFree
  /\ hpc[s] = "error_send"
  /\ HeadBy(s, "H")
  /\ sent' = Upd(sent, s, Append(sent[s], Head(wire[s]).msg))
  /\ wire' = Upd(wire, s, Tail(wire[s]))
  /\ hpc' = Upd(hpc, s, "errored")
  /\ UNCHANGED <<audio_url, budget, arrived, full_response, text_buffer,
                 chunk_id_counter, attempts, db, queue_vars, sender_vars,
                 ws_ok, gate_vars, post_vars>>
  /\ UNCHANGED phrase_vars

SubmitRemainingWithContent(q, buffer, cid, voice) ==
  IF Strip(buffer) # <<>> /\ voice
  THEN add_tts_task(q, Strip(buffer), cid)
  ELSE q

\* Lines 298-310: what is left in the buffer is stripped and submitted when it
\* has at least 3 characters and the avatar has a voice.
SubmitRemaining(q, buffer, cid, voice) ==
  LET remaining_text == Strip(buffer)
  IN IF Len(remaining_text) >= MinRemainingLen /\ voice
     THEN add_tts_task(q, remaining_text, cid)
     ELSE q

\* Lines 298-316 (and 371-388 without a voice): the token stream has ended.
\* The rest of the buffer is submitted and the handler awaits wait_all(),
\* which awaits gather() only when there are tasks.
H_End(s) ==
  /\ LoopFree
  /\ hpc[s] = "stream"
  /\ LET q == SubmitRemaining(Q(s), text_buffer[s], chunk_id_counter[s], audio_url[s])
     IN /\ task_counter' = Upd(task_counter, s, q.task_counter)
        /\ jobs' = Upd(jobs, s, q.jobs)
        /\ IF audio_url[s]
           THEN /\ active_tasks' = Upd(active_tasks, s, q.active_tasks)
                /\ completed_queue' =
                     IF q.active_tasks # <<>> THEN completed_queue
                     ELSE Upd(completed_queue, s, QueueAfterWaitAll(completed_queue[s]))
                /\ hpc' = Upd(hpc, s,
                              IF q.active_tasks # <<>> THEN "wait_all"
                              ELSE IF completed_queue'[s] = <<>> THEN "final_moment"
                              ELSE "wait_queue")
                /\ UNCHANGED <<db, wire>>
           ELSE /\ active_tasks' = Upd(active_tasks, s, q.active_tasks)
                /\ db' = Upd(db, s, Append(db[s], AvatarRow(s)))
                /\ HSend(s, wire[s], CompleteMsg(s), "complete_send")
                /\ UNCHANGED completed_queue
  /\ UNCHANGED <<audio_url, budget, arrived, full_response, text_buffer,
                 chunk_id_counter, attempts, sender_vars, sent, ws_ok,
                 gate_vars, post_vars>>
  /\ UNCHANGED phrase_vars

\* TTSQueue.wait_all, lines 171-177: gather() returns when every task of
\* active_tasks is done; the list is cleared, the queue is left alone.
H_WaitAll(s) ==
  /\ LoopFree
  /\ hpc[s] = "wait_all"
  /\ AllTasksDone(s)
  /\ active_tasks' = Upd(active_tasks, s, <<>>)
  /\ completed_queue' = Upd(completed_queue, s, QueueAfterWaitAll(completed_queue[s]))
  /\ hpc' = Upd(hpc, s, IF completed_queue'[s] = <<>> THEN "final_moment"
                        ELSE "wait_queue")
  /\ UNCHANGED <<audio_url, budget, arrived, full_response, text_buffer,
                 chunk_id_counter, attempts, db, task_counter, jobs,
                 sender_vars, transport_vars, gate_vars, post_vars>>
  /\ UNCHANGED phrase_vars

\* Lines 327-336: the loop sleeps 0.2 s at a time until the queue is empty or
\* max_wait_time has passed, then the handler sleeps another 0.5 s.
H_WaitQueue(s) ==
  /\ LoopFree
  /\ hpc[s] = "wait_queue"
  /\ \/ completed_queue[s] = <<>>
     \/ TRUE   \* elapsed > max_wait_time
  /\ hpc' = Upd(hpc, s, "final_moment")
  /\ UNCHANGED <<audio_url, budget, arrived, full_response, text_buffer,
                 chunk_id_counter, attempts, db, queue_vars, sender_vars,
                 transport_vars, gate_vars, post_vars>>
  /\ UNCHANGED phrase_vars

\* One pass of the manual flush loop, lines 342-359, with w the pending
\* sends and att the attempts made: the next chunk is taken and its send is
\* awaited, or the loop ends, the flag is cleared and the handler sleeps.
FlushStep(s, w, att) ==
  /\ attempts' = Upd(attempts, s, att)
  /\ IF completed_queue[s] # <<>> /\ att < max_remaining_attempts
     THEN /\ completed_queue' =
               Upd(completed_queue, s, wait_for_chunk(completed_queue[s]).rest)
          /\ HSend(s, w, AudioMsg(wait_for_chunk(completed_queue[s]).chunk),
                   "flush_send")
          /\ UNCHANGED send_active
     ELSE /\ send_active' = Upd(send_active, s, FALSE)
          /\ wire' = Upd(wire, s, w)
          /\ hpc' = Upd(hpc, s, "stopping")
          /\ UNCHANGED completed_queue

H_Flush(s) ==
  /\ LoopFree
  /\ hpc[s] = "final_moment"
  /\ FlushStep(s, wire[s], attempts[s])
  /\ UNCHANGED <<audio_url, budget, arrived, full_response, text_buffer,
                 chunk_id_counter, db, task_counter, active_tasks, jobs, spc,
                 sent, ws_ok, gate_vars, post_vars>>
  /\ UNCHANGED phrase_vars

H_FlushSent(s) ==
  /\ LoopFree
  /\ hpc[s] = "flush_send"
  /\ HeadBy(s, "H")
  /\ sent' = Upd(sent, s, Append(sent[s], Head(wire[s]).msg))
  /\ FlushStep(s, Tail(wire[s]), attempts[s] + 1)
  /\ UNCHANGED <<audio_url, budget, arrived, full_response, text_buffer,
                 chunk_id_counter, db, task_counter, active_tasks, jobs, spc,
                 ws_ok, gate_vars, post_vars>>
  /\ UNCHANGED phrase_vars

CancelSenderLate(w) == w

\* tts_sender_task.cancel() and await tts_sender_task, lines 363-367: the
\* send the sender was awaiting is abandoned
CancelSender(w) == SelectSeq(w, LAMBDA p : p.by # "S")

\* Lines 360-388: after 0.5 s the sender task is cancelled and awaited (a
\* send_json it is still awaiting is abandoned), the response is stored and
\* the complete message is sent.
H_Stop(s) ==
  /\ LoopFree
  /\ hpc[s] = "stopping"
  /\ spc' = Upd(spc, s, "finished")
  /\ db' = Upd(db, s, Append(db[s], AvatarRow(s)))
  /\ HSend(s, CancelSender(wire[s]), CompleteMsg(s), "complete_send")
  /\ UNCHANGED <<audio_url, budget, arrived, full_response, text_buffer,
                 chunk_id_counter, attempts, queue_vars, send_active, sent,
                 ws_ok, gate_vars, post_vars>>
  /\ UNCHANGED phrase_vars

H_CompleteSent(s) ==
  /\ LoopFree
  /\ hpc[s] = "complete_send"
  /\ HeadBy(s, "H")
  /\ sent' = Upd(sent, s, Append(sent[s], Head(wire[s]).msg))
  /\ wire' = Upd(wire, s, Tail(wire[s]))
  /\ hpc' = Upd(hpc, s, "closed")
  /\ UNCHANGED <<audio_url, budget, arrived, full_response, text_buffer,
                 chunk_id_counter, attempts, db, queue_vars, sender_vars,
                 ws_ok, gate_vars, post_vars>>
  /\ UNCHANGED phrase_vars

\* The client goes away while a send_json is awaited: every pending call
\* raises, and so does every later one.  The handler leaves through lines
\* 390-397 (nothing more can be sent); the sender task catches the exception
\* at line 238 and goes on polling.
Disconnect(s) ==
  /\ LoopFree
  /\ ws_ok[s]
  /\ wire[s] # <<>>
  /\ ws_ok' = Upd(ws_ok, s, FALSE)
  /\ wire' = Upd(wire, s, <<>>)
  /\ hpc' = Upd(hpc, s,
                IF hpc[s] \in {"text_send", "flush_send", "complete_send", "error_send"}
                THEN "errored" ELSE hpc[s])
  /\ spc' = Upd(spc, s, IF spc[s] = "send" THEN "idle" ELSE spc[s])
  /\ UNCHANGED <<audio_url, budget, arrived, full_response, text_buffer,
                 chunk_id_counter, attempts, db, queue_vars, send_active, sent,
                 gate_vars, post_vars>>
  /\ UNCHANGED phrase_vars

(***************************************************************************)
(* send_tts_chunks, lines 210-243.  "idle" stands for the wait of 0.5 s for *)
(* a chunk and for the sleep of 0.1 s after a timeout or an exception.     *)
(***************************************************************************)
S_Take(s) ==
  /\ LoopFree
  /\ spc[s] = "idle"
  /\ completed_queue[s] # <<>>
  /\ completed_queue' =
       Upd(completed_queue, s, wait_for_chunk(completed_queue[s]).rest)
  /\ IF ws_ok[s]
     THEN /\ wire' = Upd(wire, s, Append(wire[s],
                 Pending("S", AudioMsg(wait_for_chunk(completed_queue[s]).chunk))))
          /\ spc' = Upd(spc, s, "send")
     ELSE UNCHANGED <<wire, spc>>
  /\ UNCHANGED <<session_vars, task_counter, active_tasks, jobs, send_active,
                 sent, ws_ok, gate_vars, post_vars>>
  /\ UNCHANGED phrase_vars

S_SendDone(s) ==
  /\ LoopFree
  /\ spc[s] = "send"
  /\ HeadBy(s, "S")
  /\ sent' = Upd(sent, s, Append(sent[s], Head(wire[s]).msg))
  /\ wire' = Upd(wire, s, Tail(wire[s]))
  /\ spc' = Upd(spc, s, "idle")
  /\ UNCHANGED <<session_vars, queue_vars, send_active, ws_ok, gate_vars,
                 post_vars>>
  /\ UNCHANGED phrase_vars

\* The while condition is false: the task returns.
S_Exit(s) ==
  /\ LoopFree
  /\ spc[s] = "idle"
  /\ ~send_active[s]
  /\ spc' = Upd(spc, s, "finished")
  /\ UNCHANGED <<session_vars, queue_vars, send_active, transport_vars,
                 gate_vars, post_vars>>
  /\ UNCHANGED phrase_vars

(***************************************************************************)
(* TTS_SEMAPHORE = asyncio.Semaphore(1) and the tasks of _generate_with_id *)
(***************************************************************************)
lockedNever(v, w) == FALSE

\* Semaphore.locked(): no permit is left, or a task is already waiting
locked(v, w) == v = 0 \/ w # <<>>

NextWaiterNewest(w) == Len(w)

\* The waiter release() wakes: the one that has waited longest.  The permit
\* goes to it directly; a task that reaches acquire() before the woken task
\* has run finds locked() true and queues behind it.
NextWaiter(w) == 1

ReleasesOnSuccess(o) == o = "audio"

\* async with TTS_SEMAPHORE, line 52: __aexit__ releases on a return and on
\* an exception alike
Releases(o) == TRUE

JobAfterRetry(o) == IF o = "audio" THEN "done" ELSE "new"

\* State of a task whose synthesis gave outcome o: the task is over
JobAfter(o) == "done"

PublishesAlways(o) == TRUE

\* if audio_bytes: the chunk is put on the completed queue
Publishes(o) == o = "audio"

SpeakableByLength(text) == Len(Strip(text)) >= MinTextLen

\* The checks before the semaphore: line 125, then lines 37-47
Speakable(text) ==
  /\ text # <<>>
  /\ Len(Strip(text)) >= MinTextLen
  /\ is_tts_worthy(clean_text_for_tts(text), MinWords)

\* First step of the task of job i of session s, up to its first await.
\* Tasks start in the order they were created.
J_Start(s, i) ==
  /\ LoopFree
  /\ i \in 1..Len(jobs[s])
  /\ jobs[s][i].st = "new"
  /\ \A k \in 1..(i - 1) : jobs[s][k].st # "new"
  /\ IF ~Speakable(jobs[s][i].text)
     THEN /\ jobs' = [jobs EXCEPT ![s][i].st = "done", ![s][i].res = "skipped"]
          /\ UNCHANGED gate_vars
     ELSE IF ~locked(sem, waiters)
     THEN /\ sem' = sem - 1
          /\ jobs' = [jobs EXCEPT ![s][i].st = "running",
                                  ![s][i].calls = jobs[s][i].calls + 1]
          /\ UNCHANGED waiters
     ELSE /\ waiters' = Append(waiters, <<s, i>>)
          /\ jobs' = [jobs EXCEPT ![s][i].st = "waiting"]
          /\ UNCHANGED sem
  /\ UNCHANGED <<session_vars, task_counter, active_tasks, completed_queue,
                 sender_vars, transport_vars, post_vars>>
  /\ UNCHANGED phrase_vars

\* The backend call of job i returns with outcome o (lines 55-77, 129-153):
\* the semaphore is released, which hands the permit to a waiting task, and
\* the audio, if any, is put on the completed queue.
J_Return(s, i, o) ==
  /\ LoopFree
  /\ i \in 1..Len(jobs[s])
  /\ jobs[s][i].st = "running"
  /\ LET mine == [jobs EXCEPT ![s][i].st = JobAfter(o),
                              ![s][i].res = IF o = "audio" THEN "audio" ELSE "failed"]
     IN IF ~Releases(o)
        THEN /\ jobs' = mine
             /\ UNCHANGED gate_vars
        ELSE IF waiters = <<>>
        THEN /\ sem' = sem + 1
             /\ jobs' = mine
             /\ UNCHANGED waiters
        ELSE LET n == NextWaiter(waiters)
                 t == waiters[n][1]
                 j == waiters[n][2]
             IN /\ waiters' = SubSeq(waiters, 1, n - 1) \o
                              SubSeq(waiters, n + 1, Len(waiters))
                /\ jobs' = [mine EXCEPT ![t][j].st = "running",
                                        ![t][j].calls = mine[t][j].calls + 1]
                /\ UNCHANGED sem
  /\ completed_queue' =
       IF Publishes(o)
       THEN Upd(completed_queue, s,
                Append(completed_queue[s],
                       [chunk_id |-> jobs[s][i].chunk_id, text |-> jobs[s][i].text]))
       ELSE completed_queue
  /\ UNCHANGED <<session_vars, task_counter, active_tasks, sender_vars,
                 transport_vars, post_vars>>
  /\ UNCHANGED phrase_vars

(***************************************************************************)
(* chat_with_avatar (POST /chat), lines 504-520: the backend is called on  *)
(* the event loop thread, without the semaphore.                           *)
(***************************************************************************)
P_Call ==
  /\ post_pc = "idle"
  /\ posts < MaxPosts
  /\ post_pc' = "synth"
  /\ posts' = posts + 1
  /\ UNCHANGED <<session_vars, queue_vars, sender_vars, transport_vars, gate_vars>>
  /\ UNCHANGED phrase_vars

P_Return ==
  /\ post_pc = "synth"
  /\ post_pc' = "idle"
  /\ UNCHANGED <<posts, session_vars, queue_vars, sender_vars, transport_vars,
                 gate_vars>>
  /\ UNCHANGED phrase_vars

(***************************************************************************)
(* A caller of TTSQueue.add_tts_task other than the stream handler: the    *)
(* utterance is submitted to the queue of session s with no chunk_id.      *)
(***************************************************************************)
SubmitTexts == { <<"a", " ", "a", " ", "a", ".">>, <<"a", "a", ".">> }

JobCount == Len(jobs[1]) + Len(jobs[2])

Submit(s, text) ==
  /\ LoopFree
  /\ hpc[s] = "absent"
  /\ JobCount < MaxJobs
  /\ LET q == add_tts_task(Q(s), text, NoneId)
     IN /\ task_counter' = Upd(task_counter, s, q.task_counter)
        /\ active_tasks' = Upd(active_tasks, s, q.active_tasks)
        /\ jobs' = Upd(jobs, s, q.jobs)
  /\ UNCHANGED <<session_vars, completed_queue, sender_vars, transport_vars,
                 gate_vars, post_vars>>
  /\ UNCHANGED phrase_vars

(***************************************************************************)
(* Specifications                                                          *)
(***************************************************************************)
Fresh(f) == [s \in Sessions |-> f]

InitShared ==
  /\ arrived = Fresh(<<>>)
  /\ full_response = Fresh(<<>>)
  /\ text_buffer = Fresh(<<>>)
  /\ chunk_id_counter = Fresh(0)
  /\ task_counter = Fresh(0)
  /\ active_tasks = Fresh(<<>>)
  /\ completed_queue = Fresh(<<>>)
  /\ jobs = Fresh(<<>>)
  /\ spc = Fresh("none")
  /\ send_active = Fresh(TRUE)
  /\ attempts = Fresh(0)
  /\ wire = Fresh(<<>>)
  /\ sent = Fresh(<<>>)
  /\ ws_ok = Fresh(TRUE)
  /\ db = Fresh(<<>>)
  /\ sem = 1
  /\ waiters = <<>>
  /\ post_pc = "idle"

NoArgs == [text |-> <<>>, min_words |-> 0, max_words |-> 0]

\* extract_phrase is not called
NoResult == [called |-> FALSE, phrase |-> <<>>, remaining |-> <<>>]

NoPhraseCall == phrase_args = NoArgs /\ phrase_result = NoResult

\* One WebSocket session whose model yields at most n tokens, no POST /chat
\* traffic
InitSession(n) ==
  /\ InitShared
  /\ NoPhraseCall
  /\ hpc = [s \in Sessions |-> IF s = 1 THEN "start" ELSE "absent"]
  /\ audio_url \in [Sessions -> BOOLEAN]
  /\ audio_url[2] = FALSE
  /\ budget = [s \in Sessions |-> IF s = 1 THEN n ELSE 0]
  /\ posts = 0

Init == InitSession(MaxTokens)

SessionStep(s) ==
  \/ H_Start(s)
  \/ \E tok \in Tokens : H_Token(s, tok)
  \/ H_TextSent(s)
  \/ H_LLMError(s)
  \/ H_ErrorSent(s)
  \/ H_End(s)
  \/ H_WaitAll(s)
  \/ H_WaitQueue(s)
  \/ H_Flush(s)
  \/ H_FlushSent(s)
  \/ H_Stop(s)
  \/ H_CompleteSent(s)
  \/ Disconnect(s)
  \/ S_Take(s)
  \/ S_SendDone(s)
  \/ S_Exit(s)
  \/ \E i \in 1..Len(jobs[s]) : J_Start(s, i)
  \/ \E i \in 1..Len(jobs[s]) : \E o \in Outcomes : J_Return(s, i, o)

Next == \E s \in Sessions : SessionStep(s)

Spec == Init /\ [][Next]_vars

\* Two TTSQueues fed directly, and POST /chat requests, on one event loop
InitGate ==
  /\ InitShared
  /\ NoPhraseCall
  /\ hpc = Fresh("absent")
  /\ audio_url = Fresh(TRUE)
  /\ budget = Fresh(0)
  /\ posts = 0

NextGate ==
  \/ \E s \in Sessions : \E text \in SubmitTexts : Submit(s, text)
  \/ \E s \in Sessions : \E i \in 1..Len(jobs[s]) : J_Start(s, i)
  \/ \E s \in Sessions : \E i \in 1..Len(jobs[s]) : \E o \in Outcomes : J_Return(s, i, o)
  \/ P_Call
  \/ P_Return

GateSpec == InitGate /\ [][NextGate]_vars

\* Two WebSocket sessions at once, each with a voice; the model of session 1
\* speaks in "a", that of session 2 in "b"
MaxPairTokens == 1

PairToken(s) ==
  IF s = 1 THEN <<"a", " ", "a", " ", "a", ".", " ">>
  ELSE <<"b", " ", "b", " ", "b", ".", " ">>

InitPair ==
  /\ InitShared
  /\ NoPhraseCall
  /\ hpc = Fresh("start")
  /\ audio_url = Fresh(TRUE)
  /\ budget = Fresh(MaxPairTokens)
  /\ posts = 0

PairStep(s) ==
  \/ H_Start(s)
  \/ H_Token(s, PairToken(s))
  \/ H_TextSent(s)
  \/ H_End(s)
  \/ H_WaitAll(s)
  \/ H_WaitQueue(s)
  \/ H_Flush(s)
  \/ H_FlushSent(s)
  \/ H_Stop(s)
  \/ H_CompleteSent(s)
  \/ S_Take(s)
  \/ S_SendDone(s)
  \/ S_Exit(s)
  \/ \E i \in 1..Len(jobs[s]) : J_Start(s, i)
  \/ \E i \in 1..Len(jobs[s]) : \E o \in {"audio", "none"} : J_Return(s, i, o)

NextPair == \E s \in Sessions : PairStep(s)

PairSpec == InitPair /\ [][NextPair]_vars

\* Calls of extract_phrase(text, min_words, max_words) with
\* min_words <= max_words
MaxPhraseLen == 5

MaxPhraseWords == 2

PhraseTexts ==
  UNION {[1..n -> {"a", " ", "."}] : n \in 0..MaxPhraseLen}
    \cup { <<"a", " ", "o", "r", " ", "a">>, <<"a", ",", " ", "a", " ", "a">> }

InitPhrase ==
  /\ InitShared
  /\ hpc = Fresh("absent")
  /\ audio_url = Fresh(FALSE)
  /\ budget = Fresh(0)
  /\ posts = 0
  /\ phrase_args \in {[text |-> t, min_words |-> a, max_words |-> b] :
                        t \in PhraseTexts, a \in 1..MaxPhraseWords, b \in 1..MaxPhraseWords}
  /\ phrase_args.min_words <= phrase_args.max_words
  /\ phrase_result = NoResult

CallExtractPhrase ==
  /\ ~phrase_result.called
  /\ LET r == extract_phrase(phrase_args.text, phrase_args.min_words, phrase_args.max_words)
     IN phrase_result' = [called |-> TRUE, phrase |-> r.phrase, remaining |-> r.remaining]
  /\ UNCHANGED <<phrase_args, session_vars, queue_vars, sender_vars,
                 transport_vars, gate_vars, post_vars>>

PhraseSpec == InitPhrase /\ [][CallExtractPhrase]_vars

HelloThere ==
  <<"H", "e", "l", "l", "o", " ", "t", "h", "e", "r", "e", ".">>

HowAreYou ==
  <<"H", "o", "w", " ", "a", "r", "e", " ", "y", "o", "u", "?">>

Fine ==
  <<"F", "i", "n", "e", ".">>

\* the response of the model in HelloSpec
Hello == HelloThere \o <<" ">> \o HowAreYou \o <<" ">> \o Fine

\* One session with a voice whose model yields Hello, cut into tokens at any
\* places; only the handler's steps up to the end of the stream are taken.
InitHello ==
  /\ InitShared
  /\ NoPhraseCall
  /\ hpc = [s \in Sessions |-> IF s = 1 THEN "start" ELSE "absent"]
  /\ audio_url = [s \in Sessions |-> s = 1]
  /\ budget = [s \in Sessions |-> IF s = 1 THEN MaxHelloTokens ELSE 0]
  /\ posts = 0

HelloRest == SubSeq(Hello, Len(arrived[1]) + 1, Len(Hello))

NextHello ==
  \/ H_Start(1)
  \/ \E n \in 1..Len(HelloRest) : H_Token(1, SubSeq(HelloRest, 1, n))
  \/ H_TextSent(1)
  \/ HelloRest = <<>> /\ H_End(1)

HelloSpec == InitHello /\ [][NextHello]_vars

\* the response of the model in ListSpec: a short first sentence, then two
\* sentences
ShortFirst ==
  <<"a", ".", " ", "a", " ", "a", " ", "a", ".", " ", "a", " ", "a", " ", "a", ".">>

MaxListTokens == 3

InitList ==
  /\ InitShared
  /\ NoPhraseCall
  /\ hpc = [s \in Sessions |-> IF s = 1 THEN "start" ELSE "absent"]
  /\ audio_url = [s \in Sessions |-> s = 1]
  /\ budget = [s \in Sessions |-> IF s = 1 THEN MaxListTokens ELSE 0]
  /\ posts = 0

ListRest == SubSeq(ShortFirst, Len(arrived[1]) + 1, Len(ShortFirst))

NextList ==
  \/ H_Start(1)
  \/ \E n \in 1..Len(ListRest) : H_Token(1, SubSeq(ListRest, 1, n))
  \/ H_TextSent(1)
  \/ ListRest = <<>> /\ H_End(1)

ListSpec == InitList /\ [][NextList]_vars

\* Steps the event loop takes as soon as they are possible: a task that can
\* run does run, and a send to a connected client completes.
HandlerOwn(s) ==
  \/ H_Start(s)
  \/ H_TextSent(s)
  \/ H_ErrorSent(s)
  \/ H_WaitAll(s)
  \/ H_WaitQueue(s)
  \/ H_Flush(s)
  \/ H_FlushSent(s)
  \/ H_Stop(s)
  \/ H_CompleteSent(s)

SenderOwn(s) == S_Take(s) \/ S_SendDone(s) \/ S_Exit(s)

JobStart(s) == \E i \in 1..Len(jobs[s]) : J_Start(s, i)

JobReturn(s) == \E i \in 1..Len(jobs[s]) : \E o \in Outcomes : J_Return(s, i, o)

LoopFair ==
  \A s \in Sessions :
    WF_vars(HandlerOwn(s)) /\ WF_vars(SenderOwn(s)) /\ WF_vars(JobStart(s))

\* The backend may keep a call for ever
FairSpec == Spec /\ LoopFair

\* The token stream ends and every backend call returns
LiveSpec ==
  /\ InitSession(MaxLiveTokens)
  /\ [][Next]_vars
  /\ LoopFair
  /\ \A s \in Sessions : WF_vars(H_End(s)) /\ WF_vars(JobReturn(s))

\* Two TTSQueues fed directly and no other request: a task that can run does
\* run and every backend call returns
MaxGateJobs == 3

NextQueues ==
  \/ \E s \in Sessions : \E text \in SubmitTexts :
       JobCount < MaxGateJobs /\ Submit(s, text)
  \/ \E s \in Sessions : \E i \in 1..Len(jobs[s]) : J_Start(s, i)
  \/ \E s \in Sessions : \E i \in 1..Len(jobs[s]) : \E o \in Outcomes : J_Return(s, i, o)

GateLiveSpec ==
  /\ InitGate
  /\ [][NextQueues]_vars
  /\ \A s \in Sessions : WF_vars(JobStart(s)) /\ WF_vars(JobReturn(s))

(***************************************************************************)
(* Properties                                                              *)
(***************************************************************************)
AllJobs == UNION {{<<s, i>> : i \in 1..Len(jobs[s])} : s \in Sessions}

Job(p) == jobs[p[1]][p[2]]

\* the jobs inside text_to_speech_with_voice_cloning_bytes
InBackend == {p \in AllJobs : Job(p).st = "running"}

Outstanding == {p \in AllJobs : Job(p).st \in {"new", "waiting", "running"}}

RECURSIVE TextChunks(_)
TextChunks(msgs) ==
  IF msgs = <<>> THEN <<>>
  ELSE (IF Head(msgs).type = "text_chunk" THEN Head(msgs).text ELSE <<>>)
       \o TextChunks(Tail(msgs))

RECURSIVE AudioIds(_)
AudioIds(msgs) ==
  IF msgs = <<>> THEN <<>>
  ELSE (IF Head(msgs).type = "audio_chunk" THEN <<Head(msgs).id>> ELSE <<>>)
       \o AudioIds(Tail(msgs))

RECURSIVE PendingMsgs(_)
PendingMsgs(w) == IF w = <<>> THEN <<>> ELSE <<Head(w).msg>> \o PendingMsgs(Tail(w))

Range(f) == {f[k] : k \in DOMAIN f}

Draining ==
  {"wait_all", "wait_queue", "final_moment", "flush_send", "stopping", "complete_send"}

Over == {"closed", "errored"}

JobsOf(s) == 1..Len(jobs[s])

\* C1: under GateSpec, with five or more utterances submitted to the queues
\* of one or of two sessions, at most one job is inside the synthesis backend
\* at any time.
C1_OneSynthesisAtATime == Cardinality(InBackend) <= 1

C1_Witness ==
  /\ Cardinality(Outstanding) >= 5
  /\ Cardinality(InBackend) = 1
  /\ Cardinality({p \in AllJobs : Job(p).st = "waiting"}) >= 4
  /\ \A s \in Sessions : \E p \in Outstanding : p[1] = s

\* C2: the synthesis call of POST /chat never runs while a streaming job is
\* inside the synthesis backend, and the other way round.
C2_ProcessWideExclusion == ~(post_pc = "synth" /\ InBackend # {})

\* C3: while no send has failed, the text_chunk payloads handed to the
\* transport, in send order, concatenate to the tokens that have arrived, in
\* arrival order, whatever the synthesis jobs do.
C3_TextRelay ==
  \A s \in Sessions :
    ws_ok[s] =>
      TextChunks(sent[s]) \o TextChunks(PendingMsgs(wire[s])) = arrived[s]

C3_Witness ==
  /\ hpc[1] = "closed"
  /\ ws_ok[1]
  /\ TextChunks(sent[1]) = arrived[1]
  /\ Len(sent[1]) >= 4
  /\ \E i \in JobsOf(1) : jobs[1][i].res = "failed"
  /\ \E i \in JobsOf(1) : jobs[1][i].res = "audio"
  /\ \E i \in JobsOf(1) : jobs[1][i].res = "skipped"

C5_EventuallyClosed ==
  \A s \in Sessions : (hpc[s] \in Draining) ~> (hpc[s] \in Over)

\* C6: if every synthesis call fails and the transport and the model do not,
\* the session ends having sent every text_chunk, no audio_chunk, and the
\* complete message with the full response.
C6_Excused ==
  \/ ~ws_ok[1]
  \/ hpc[1] = "errored"
  \/ \E i \in JobsOf(1) : jobs[1][i].res = "audio"

C6_Done ==
  /\ hpc[1] = "closed"
  /\ AudioIds(sent[1]) = <<>>
  /\ TextChunks(sent[1]) = arrived[1]
  /\ sent[1] # <<>>
  /\ sent[1][Len(sent[1])] = [type |-> "complete", text |-> Strip(arrived[1]), id |-> -1]

C6_AllFailStillCompletes ==
  /\ []((hpc[1] = "closed" /\ ~C6_Excused) => C6_Done)
  /\ <>(C6_Excused \/ C6_Done)

C6_Witness ==
  /\ C6_Done
  /\ ~C6_Excused
  /\ Cardinality({i \in JobsOf(1) : jobs[1][i].res = "failed"}) >= 2

\* C7: when a session ends normally, every utterance synthesized after a
\* failed one has had its audio_chunk delivered.
C7_LaterAudioDelivered ==
  \A s \in Sessions :
    (hpc[s] = "closed" /\ ws_ok[s]) =>
      \A i, j \in JobsOf(s) :
        (i < j /\ jobs[s][i].res = "failed" /\ jobs[s][j].res = "audio")
          => jobs[s][j].chunk_id \in Range(AudioIds(sent[s]))

\* C8: the synthesis backend is invoked at most once for an utterance, and
\* no utterance is submitted twice.
C8_NoRetry ==
  \A s \in Sessions :
    \A i \in JobsOf(s) :
      /\ jobs[s][i].calls <= 1
      /\ \A j \in JobsOf(s) : i # j => jobs[s][i].chunk_id # jobs[s][j].chunk_id

C8_Witness ==
  /\ hpc[1] = "closed"
  /\ \E i, j \in JobsOf(1) :
       /\ i < j
       /\ jobs[1][i].res = "failed" /\ jobs[1][i].calls = 1
       /\ jobs[1][j].res = "audio" /\ jobs[1][j].calls = 1

\* C9: when wait_all returns every job is over and active_tasks is empty, and
\* wait_all has taken nothing from the completed queue.
C9_WaitAllFrame ==
  [][\A s \in Sessions :
       (hpc[s] \in {"stream", "wait_all"} /\ hpc'[s] \in {"wait_queue", "final_moment"})
         => /\ \A i \in 1..Len(jobs'[s]) : jobs'[s][i].st = "done"
            /\ active_tasks'[s] = <<>>
            /\ completed_queue'[s] = completed_queue[s]]_vars

C9_Witness ==
  /\ hpc[1] = "wait_queue"
  /\ Len(completed_queue[1]) >= 2
  /\ active_tasks[1] = <<>>
  /\ \E i \in JobsOf(1) : jobs[1][i].res = "failed"

\* C10: in a session that ends normally with a working transport, every
\* chunk put on the completed queue has been sent as an audio_chunk by the
\* time the complete message is sent.
C10_NoFinishedAudioDropped ==
  \A s \in Sessions :
    (hpc[s] \in {"complete_send", "closed"} /\ ws_ok[s]) =>
      \A i \in JobsOf(s) :
        jobs[s][i].res = "audio" => jobs[s][i].chunk_id \in Range(AudioIds(sent[s]))

RECURSIVE QueuedIds(_)
QueuedIds(q) == IF q = <<>> THEN <<>> ELSE <<Head(q).chunk_id>> \o QueuedIds(Tail(q))

NoRepeat(seq) == \A a, b \in 1..Len(seq) : a # b => seq[a] # seq[b]

\* C11: a chunk is in at most one place, the completed queue, a pending
\* send or the messages sent, and in it once: each chunk is dequeued by one
\* consumer and sent at most once, also while the sender task and the flush
\* loop take chunks from the same queue.
C11_ConsumedOnce ==
  \A s \in Sessions :
    NoRepeat(AudioIds(sent[s]) \o AudioIds(PendingMsgs(wire[s]))
             \o QueuedIds(completed_queue[s]))

C11_Witness ==
  /\ \E a, b \in 1..Len(wire[1]) :
       /\ wire[1][a].by = "S" /\ wire[1][a].msg.type = "audio_chunk"
       /\ wire[1][b].by = "H" /\ wire[1][b].msg.type = "audio_chunk"
  /\ AudioIds(sent[1]) # <<>>
  /\ completed_queue[1] # <<>>

\* C12: the chunk_id of the n-th utterance a session submits is n - 1: the
\* ids are 0, 1, 2, ... in submission order, the utterance submitted at the
\* end of the stream included.
C12_SequenceNumbers ==
  \A s \in Sessions : \A i \in JobsOf(s) : jobs[s][i].chunk_id = i - 1

C12_Witness ==
  /\ hpc[1] = "closed"
  /\ Len(jobs[1]) >= 3
  /\ chunk_id_counter[1] = Len(jobs[1]) - 1

RECURSIVE JobTexts(_)
JobTexts(js) == IF js = <<>> THEN <<>> ELSE <<Head(js).text>> \o JobTexts(Tail(js))

Unspoken(s, i) ==
  /\ jobs[s][i].calls = 0
  /\ jobs[s][i].st \in {"new", "done"}
  /\ jobs[s][i].res \in {"-", "skipped"}
  /\ \A k \in 1..Len(waiters) : waiters[k] # <<s, i>>
  /\ jobs[s][i].chunk_id \notin
       Range(QueuedIds(completed_queue[s]) \o AudioIds(sent[s])
             \o AudioIds(PendingMsgs(wire[s])))

PunctOnly(text) ==
  /\ Strip(text) # <<>>
  /\ \A k \in 1..Len(text) : IsPunct(text[k]) \/ IsSpace(text[k])

\* C14 as stated: no job is ever created for an utterance that is
\* punctuation only, such as "...".
C14_EllipsisNeverSubmitted ==
  \A s \in Sessions : \A i \in JobsOf(s) : ~PunctOnly(jobs[s][i].text)

\* C14 amended: a job created for an utterance that is punctuation only
\* never waits for or holds the gate, never calls the synthesis backend and
\* publishes no chunk.
C14_EllipsisNeverSpoken ==
  \A s \in Sessions : \A i \in JobsOf(s) :
    PunctOnly(jobs[s][i].text) => Unspoken(s, i)

C14_Witness ==
  /\ hpc[1] = "closed"
  /\ \E i, j \in JobsOf(1) :
       /\ jobs[1][i].text = Ellipsis
       /\ jobs[1][i].res = "skipped"
       /\ jobs[1][j].res = "audio"

(***************************************************************************)
(* Utterances around the content check of generate_tts_async               *)
(***************************************************************************)
MaxWorthJobs == 3

\* three words; one word; three words of which one letter in six characters;
\* two words once sanitized; three words once sanitized
WorthTexts ==
  { <<"a", " ", "a", " ", "a", ".">>,
    <<"a", "a", ".">>,
    <<".", ".", ".", " ", "a", ".">>,
    <<"a", ".", ".", "a">>,
    <<"a", " ", ".", "a">> }

NextWorth ==
  \/ /\ JobCount < MaxWorthJobs
     /\ \E s \in Sessions : \E text \in WorthTexts : Submit(s, text)
  \/ \E s \in Sessions : \E i \in 1..Len(jobs[s]) : J_Start(s, i)
  \/ \E s \in Sessions : \E i \in 1..Len(jobs[s]) : \E o \in Outcomes : J_Return(s, i, o)

WorthSpec == InitGate /\ [][NextWorth]_vars

\* The minimum-content check read on the sanitized text of an utterance.
PassesContentCheck(text) ==
  LET sanitized == clean_text_for_tts(text)
  IN /\ WordCount[sanitized] >= MinWords
     /\ 10 * AlphaCount[sanitized] >= 3 * Len(sanitized)

\* C15: the backend is invoked for an utterance only if its sanitized text
\* has at least 3 words and an alphabetic ratio of at least 0.3; an utterance
\* that fails the check never waits for or holds the gate, is never
\* synthesized and never publishes a chunk.
C15_OnlyWorthySynthesized ==
  \A s \in Sessions : \A i \in JobsOf(s) :
    ~PassesContentCheck(jobs[s][i].text) => Unspoken(s, i)

C15_TwoWordsSynthesized ==
  \E s \in Sessions : \E i \in JobsOf(s) :
    /\ jobs[s][i].text = <<"a", ".", ".", "a">>
    /\ clean_text_for_tts(jobs[s][i].text) = <<"a", ".", " ", ".", "a">>
    /\ jobs[s][i].calls = 1
    /\ jobs[s][i].res = "audio"

AfterEnd == Draining \cup {"closed"}

LastText(s) == jobs[s][Len(jobs[s])].text

\* C16 as stated: once the token stream has ended, the jobs of the session
\* are those of the sentences submitted during the stream, followed by one
\* job for what remained in the buffer whenever that has content.
C16_RemainderWithContent ==
  \A s \in Sessions :
    (hpc[s] \in AfterEnd /\ audio_url[s]) =>
      IF Strip(text_buffer[s]) # <<>>
      THEN /\ Len(jobs[s]) = chunk_id_counter[s] + 1
           /\ LastText(s) = Strip(text_buffer[s])
      ELSE Len(jobs[s]) = chunk_id_counter[s]

\* C16: once the token stream has ended, the jobs of the session are those of
\* the sentences submitted during the stream, followed by exactly one job for
\* what remained in the buffer when its stripped text has at least 3
\* characters, and by nothing otherwise; no job is added afterwards.
C16_RemainderOfThree ==
  \A s \in Sessions :
    (hpc[s] \in AfterEnd /\ audio_url[s]) =>
      IF Len(Strip(text_buffer[s])) >= 3
      THEN /\ Len(jobs[s]) = chunk_id_counter[s] + 1
           /\ LastText(s) = Strip(text_buffer[s])
      ELSE Len(jobs[s]) = chunk_id_counter[s]

C16_Witness ==
  /\ hpc[1] = "closed"
  /\ chunk_id_counter[1] = 1
  /\ Len(jobs[1]) = 2
  /\ LastText(1) = <<"a", " ", "a", " ", "a">>
  /\ jobs[1][2].res = "audio"

\* C17: a failed send on the transport of a session, that of the sender task
\* included, is fatal: the session is in Errored once a send has failed.
C17_FatalToSession == \A s \in Sessions : ~ws_ok[s] => hpc[s] = "errored"

\* the send of the sender task has failed and the handler is still draining
C17_Witness ==
  /\ ~ws_ok[1]
  /\ hpc[1] \in {"wait_queue", "final_moment"}
  /\ spc[1] = "idle"
  /\ \E i \in JobsOf(1) :
       /\ jobs[1][i].res = "audio"
       /\ jobs[1][i].chunk_id \notin
            Range(QueuedIds(completed_queue[1]) \o AudioIds(sent[1]))

\* C18: once the client of a session is gone the handler takes no token but
\* the one on whose text_chunk it learns of it, submits no utterance and does
\* not await the jobs of the session, and the gate is held only for a job
\* that is inside the backend.
C18_StopsAtDisconnect ==
  [][\A s \in Sessions :
       /\ ~ws_ok[s] =>
            /\ arrived'[s] # arrived[s] => hpc'[s] = "errored"
            /\ Len(jobs'[s]) = Len(jobs[s])
            /\ hpc'[s] # "wait_all"
       /\ sem' = 0 => \E p \in AllJobs : jobs'[p[1]][p[2]].st = "running"]_vars

\* the client went away during the stream and the handler, at the end of
\* the stream, has submitted the rest of the buffer and awaits the jobs
C18_Witness ==
  /\ ~ws_ok[1]
  /\ hpc[1] = "wait_all"
  /\ Len(jobs[1]) = chunk_id_counter[1] + 1
  /\ jobs[1][Len(jobs[1])].st \in {"new", "waiting", "running"}

ContainsText(u, t) ==
  \E k \in 1..(Len(u) - Len(t) + 1) : SubSeq(u, k, k + Len(t) - 1) = t

\* C19: when the handler submits utterances, the text_chunk of every token
\* that has arrived has been delivered, the handler goes straight on with the
\* stream or the drain, the new jobs have not started and the gate is as it
\* was; and every audio_chunk delivered comes after text_chunks that contain
\* its text.
C19_TextBeforeAudio ==
  /\ [][\A s \in Sessions :
          (hpc[s] \in {"text_send", "stream"} /\ Len(jobs'[s]) > Len(jobs[s])) =>
            /\ TextChunks(sent'[s]) = arrived'[s]
            /\ hpc'[s] \in {"stream", "wait_all"}
            /\ \A i \in (Len(jobs[s]) + 1)..Len(jobs'[s]) : jobs'[s][i].st = "new"
            /\ sem' = sem /\ waiters' = waiters]_vars
  /\ [](\A s \in Sessions : \A k \in 1..Len(sent[s]) :
          sent[s][k].type = "audio_chunk" =>
            ContainsText(TextChunks(SubSeq(sent[s], 1, k - 1)), sent[s][k].text))

\* the text of a second token is delivered while the first utterance is
\* inside the backend
C19_Witness ==
  /\ Len(jobs[1]) >= 1
  /\ jobs[1][1].st = "running"
  /\ Len(sent[1]) = 2
  /\ TextChunks(sent[1]) = arrived[1]
  /\ ContainsText(sent[1][1].text, jobs[1][1].text)
  /\ sent[1][2].text # <<>>

IsSuffix(t, u) == Len(t) <= Len(u) /\ SubSeq(u, Len(u) - Len(t) + 1, Len(u)) = t

\* the sentence the splitting loop would look at next, stripped
Candidate(buf) == Strip(SubSeq(buf, 1, period_idx(buf) + 1))

\* C20: no utterance of fewer than 3 characters is ever submitted, and
\* between two tokens a sentence that ends at a boundary at the front of the
\* buffer is one of fewer than 3 characters, kept there as it arrived.
C20_ShortSentenceRetained ==
  \A s \in Sessions :
    /\ \A i \in JobsOf(s) : Len(jobs[s][i].text) >= 3
    /\ hpc[s] = "stream" =>
         /\ IsSuffix(text_buffer[s], arrived[s])
         /\ (Strip(text_buffer[s]) # <<>> /\ period_idx(text_buffer[s]) # -1) =>
              Len(Candidate(text_buffer[s])) < 3

\* "a." has arrived after two sentences and is still in the buffer
C20_Witness ==
  /\ hpc[1] = "stream"
  /\ budget[1] = 0
  /\ Len(jobs[1]) = 2
  /\ text_buffer[1] = <<"a", ".">>
  /\ IsSuffix(<<"a", ".">>, TextChunks(sent[1]))

Letter(s) == IF s = 1 THEN "a" ELSE "b"

OwnText(s, text) == \A k \in 1..Len(text) : IsAlpha(text[k]) => text[k] = Letter(s)

AllOwn(s, items) == \A k \in 1..Len(items) : OwnText(s, items[k].text)

QueueData(s) == <<completed_queue[s], active_tasks[s], task_counter[s]>>

\* C22: with two sessions at once, every job, every queued chunk and every
\* message pending or delivered of a session carries only text of that
\* session's own response, the task counter and the task list of a session
\* count its own utterances only, and no step changes the completed queue,
\* the task list or the counter of both sessions.
C22_SessionIsolation ==
  /\ [](\A s \in Sessions :
          /\ AllOwn(s, jobs[s])
          /\ AllOwn(s, completed_queue[s])
          /\ AllOwn(s, sent[s])
          /\ AllOwn(s, PendingMsgs(wire[s]))
          /\ task_counter[s] = Len(jobs[s])
          /\ task_counter[s] = chunk_id_counter[s]
          /\ Len(active_tasks[s]) <= task_counter[s])
  /\ [][~(QueueData(1)' # QueueData(1) /\ QueueData(2)' # QueueData(2))]_vars

\* both sessions have received their own audio while the other was active
C22_Witness ==
  /\ \A s \in Sessions : Len(AudioIds(sent[s])) >= 1 /\ hpc[s] # "closed"
  /\ sent[1][Len(sent[1])].type = "audio_chunk"
  /\ sent[2][Len(sent[2])].type = "audio_chunk"

AvatarRows(s) == SelectSeq(db[s], LAMBDA row : row.sender = "avatar")

\* C23 as stated: nothing is in the conversation store while the session is
\* idle or streaming.
C23_NothingStoredWhileStreaming ==
  \A s \in Sessions : hpc[s] \in {"start", "stream", "text_send"} => db[s] = <<>>

\* C23: the store holds the user's message from the start of the stream on
\* and nothing else until the drain is over; the avatar's response is stored
\* at most once, as the whole response stripped, when the stream has ended
\* and the sender task is stopped, before the complete message is sent; a
\* session that has completed has stored it exactly once, and one that ended
\* in error has stored either nothing of the response or all of it.
C23_StoredOnceAfterDrain ==
  \A s \in Sessions :
    /\ hpc[s] \in {"start", "absent"} => db[s] = <<>>
    /\ hpc[s] \in {"stream", "text_send", "error_send"} \cup (Draining \ {"complete_send"})
         => db[s] = <<UserRow>>
    /\ hpc[s] \in {"complete_send", "closed"} =>
         db[s] = <<UserRow, [sender |-> "avatar", content |-> Strip(arrived[s])]>>
    /\ hpc[s] = "errored" =>
         \/ db[s] = <<UserRow>>
         \/ /\ db[s] = <<UserRow, [sender |-> "avatar", content |-> Strip(arrived[s])]>>
            /\ ~ws_ok[s]
    /\ (AvatarRows(s) # <<>> /\ audio_url[s]) => spc[s] = "finished" /\ ~send_active[s]

\* a session with a voice has completed after sending audio
C23_Witness ==
  /\ hpc[1] = "closed"
  /\ audio_url[1]
  /\ Len(AudioIds(sent[1])) >= 1
  /\ Len(AvatarRows(1)) = 1
  /\ AvatarRows(1)[1].content # full_response[1]

\* C24: a call of extract_phrase with min_words <= max_words returns
\* ("", text) when text has fewer than min_words words, and otherwise a
\* phrase of at least min_words and at most max_words words.
C24_PhraseWithinBounds ==
  phrase_result.called =>
    LET n == Len(SplitWords[phrase_args.text])
        k == Len(SplitWords[phrase_result.phrase])
    IN IF n < phrase_args.min_words
       THEN phrase_result.phrase = <<>> /\ phrase_result.remaining = phrase_args.text
       ELSE phrase_args.min_words <= k /\ k <= phrase_args.max_words

\* extract_phrase("a a a", 1, 2) has returned the whole text
C24_Witness ==
  /\ phrase_result.called
  /\ phrase_args = [text |-> <<"a", " ", "a", " ", "a">>, min_words |-> 1, max_words |-> 2]
  /\ phrase_result.phrase = <<"a", " ", "a", " ", "a">>
  /\ phrase_result.remaining = <<>>

\* C25: once the handler of a session with a voice has returned, normally or
\* through its except clauses, the sender task of the session has finished
\* and has no send pending.
C25_SenderStopped ==
  \A s \in Sessions :
    (hpc[s] \in Over /\ audio_url[s]) =>
      /\ spc[s] = "finished"
      /\ \A k \in 1..Len(wire[s]) : wire[s][k].by # "S"

\* the model raised, the handler sent the error message and returned, and
\* the sender task has sent an audio_chunk after it
C25_Witness ==
  /\ hpc[1] = "errored"
  /\ ws_ok[1]
  /\ send_active[1]
  /\ spc[1] = "idle"
  /\ \E k \in 1..Len(sent[1]) :
       /\ sent[1][k].type = "error"
       /\ k < Len(sent[1])
       /\ sent[1][Len(sent[1])].type = "audio_chunk"

\* the sentences of buf that end in ". ", stripped, in order
PeriodSpaceSentences[buf \in Text] ==
  LET idx == FindPeriodSpace(buf)
  IN IF idx = -1 THEN <<>>
     ELSE <<Strip(SubSeq(buf, 1, idx + 1))>>
            \o PeriodSpaceSentences[SubSeq(buf, idx + 3, Len(buf))]

\* C26: between two tokens the buffer holds no sentence of 3 characters or
\* more that ends in ". ": each has been submitted, also behind a shorter
\* first sentence.
C26_NoSentenceHeldBack ==
  \A s \in Sessions :
    hpc[s] = "stream" =>
      \A k \in 1..Len(PeriodSpaceSentences[text_buffer[s]]) :
        Len(PeriodSpaceSentences[text_buffer[s]][k]) < 3

\* the whole response has arrived and nothing has been submitted
C26_Witness ==
  /\ hpc[1] = "stream"
  /\ arrived[1] = ShortFirst
  /\ text_buffer[1] = ShortFirst
  /\ TextChunks(sent[1]) = ShortFirst
  /\ jobs[1] = <<>>

NonSpace[s \in Text] ==
  IF s = <<>> THEN <<>>
  ELSE (IF IsSpace(Head(s)) THEN <<>> ELSE <<Head(s)>>) \o NonSpace[Tail(s)]

Flatten[ts \in Seq(Text)] == IF ts = <<>> THEN <<>> ELSE Head(ts) \o Flatten[Tail(ts)]

\* the characters of the utterances of session s, in submission order
Spoken(s) == NonSpace[Flatten[JobTexts(jobs[s])]]

\* C27: in a session with a voice, between two tokens the characters of the
\* utterances submitted followed by those of the buffer are the characters
\* of the response received, whitespace apart; once the stream has ended the
\* utterances alone are, unless the remainder has fewer than 3 characters.
C27_TextPreserved ==
  \A s \in Sessions :
    audio_url[s] =>
      /\ hpc[s] = "stream" =>
           Spoken(s) \o NonSpace[text_buffer[s]] = NonSpace[arrived[s]]
      /\ hpc[s] \in AfterEnd =>
           IF Len(Strip(text_buffer[s])) >= 3
           THEN Spoken(s) = NonSpace[arrived[s]]
           ELSE Spoken(s) \o NonSpace[text_buffer[s]] = NonSpace[arrived[s]]

\* the whole response has been submitted in two utterances, the first one
\* during the stream from a token that went on into the next sentence
C27_Witness ==
  /\ hpc[1] \in AfterEnd
  /\ arrived[1] = Hello
  /\ Len(jobs[1]) = 2
  /\ jobs[1][1].text = HelloThere
  /\ Len(sent[1]) >= 2
  /\ Len(sent[1][1].text) > Len(HelloThere) + 1

IsComplete(msg) == msg.type = "complete"

\* C28: a complete message is the last message delivered to its session, and
\* from the moment its send is called the sender task has ended, no send of
\* the sender is pending and nothing is queued behind it.
C28_CompleteIsLast ==
  \A s \in Sessions :
    /\ \A k \in 1..Len(sent[s]) : IsComplete(sent[s][k]) => k = Len(sent[s])
    /\ \A k \in 1..Len(wire[s]) : IsComplete(wire[s][k].msg) => k = Len(wire[s])
    /\ ((\E k \in 1..Len(sent[s]) : IsComplete(sent[s][k]))
          \/ (\E k \in 1..Len(wire[s]) : IsComplete(wire[s][k].msg))) =>
         /\ spc[s] \in {"finished", "none"}
         /\ \A k \in 1..Len(wire[s]) : wire[s][k].by # "S"
         /\ hpc[s] \in {"complete_send", "closed"}

\* a session has ended with text, audio and then the complete message, its
\* sender cancelled while it was idle
C28_Witness ==
  /\ hpc[1] = "closed"
  /\ spc[1] = "finished"
  /\ Len(sent[1]) >= 3
  /\ IsComplete(sent[1][Len(sent[1])])
  /\ sent[1][Len(sent[1]) - 1].type = "audio_chunk"
  /\ wire[1] = <<>>

AtGate == {p \in AllJobs : Job(p).st = "waiting"}

C30_IdAsSubmitted ==
  /\ [][\A s \in Sessions : \A i \in JobsOf(s)' :
          i > Len(jobs[s]) =>
            /\ chunk_id_counter[s] = task_counter[s]
            /\ jobs'[s][i].chunk_id = chunk_id_counter[s] + (i - Len(jobs[s]) - 1)]_vars
  /\ [](\A s \in Sessions :
          /\ task_counter[s] = Len(jobs[s])
          /\ task_counter[s] \in {chunk_id_counter[s], chunk_id_counter[s] + 1}
          /\ task_counter[s] # chunk_id_counter[s] => hpc[s] \in Draining \cup Over
          /\ \A k \in 1..Len(completed_queue[s]) :
               \E i \in JobsOf(s) :
                 /\ i - 1 = completed_queue[s][k].chunk_id
                 /\ jobs[s][i].text = completed_queue[s][k].text
                 /\ jobs[s][i].res = "audio"
          /\ \A k \in 1..Len(sent[s]) :
               sent[s][k].type = "audio_chunk" =>
                 \E i \in JobsOf(s) :
                   /\ i - 1 = sent[s][k].id
                   /\ jobs[s][i].text = sent[s][k].text
                   /\ jobs[s][i].res = "audio")

\* the chunk submitted with chunk_id 0 has been sent under id 0, and the
\* utterance of the end of the stream was submitted after two others
C30_Witness ==
  /\ hpc[1] \in Draining
  /\ task_counter[1] = 3
  /\ chunk_id_counter[1] = 2
  /\ \E k \in 1..Len(sent[1]) :
       sent[1][k].type = "audio_chunk" /\ sent[1][k].id = 0
====
